---- MODULE Spec2Model ----
(***************************************************************************)
(* A model of src/node_zlib.cc: the ZCtx<mode> binding that stages one     *)
(* chunk on a z_stream, hands it to the uv work pool (Process) and reports *)
(* avail_in / avail_out back on the loop thread (After).                   *)
(*                                                                         *)
(* assert() is live in the builds of this tree, so a failed assertion      *)
(* aborts the process (alive = FALSE); nothing runs afterwards.            *)
(***************************************************************************)
EXTENDS Integers, Sequences, FiniteSets, TLC

\* ------------------------------------------------------------------ bounds
\* Length of the input and of the output backing Buffer.
BufLen == 1
\* Cap on the number of Write calls that reach uv_queue_work.
MaxWrites == 2
\* Cap on the number of successful Init calls per context.
MaxInits == 2

\* --------------------------------------------------------------- constants
\* enum node_zlib_mode
DEFLATE == 1
INFLATE == 2
GZIP == 3
GUNZIP == 4
DEFLATERAW == 5
INFLATERAW == 6
UNZIP == 7
Modes == DEFLATE..UNZIP

\* zlib.h values exported by InitZlib
Z_NO_FLUSH == 0
Z_FINISH == 4
Z_OK == 0
Z_STREAM_END == 1
Z_STREAM_ERROR == -2
Z_DATA_ERROR == -3
Z_MEM_ERROR == -4
Z_BUF_ERROR == -5
Z_FILTERED == 1
Z_HUFFMAN_ONLY == 2
Z_RLE == 3
Z_FIXED == 4
Z_DEFAULT_STRATEGY == 0

\* One 16-bit limb; unsigned machine words are little-endian limb sequences,
\* so that a 32-bit word keeps its true width.
Limb == 2^16

\* ---------------------------------------------------- machine arithmetic
\* v8 Value::Uint32Value() of a JS integer x, -2^31 <= x < 2^31: x mod 2^32,
\* as two limbs <<lo, hi>>.
Uint32Value(x) ==
  IF x >= 0 THEN << x % Limb, x \div Limb >>
            ELSE << (Limb - 1) - ((-x - 1) % Limb), (Limb - 1) - ((-x - 1) \div Limb) >>

\* Conversion of a 32-bit unsigned word to int (two's complement), as in
\* `int level = args[1]->Uint32Value()` and Integer::New(int32_t).
ToInt(u) ==
  IF u[2] >= Limb \div 2 THEN (u[2] - Limb) * Limb + u[1] ELSE u[2] * Limb + u[1]

\* (size_t) of a 32-bit word: zero extension to n limbs.
ToSizeT(u, n) == [i \in 1..n |-> IF i <= Len(u) THEN u[i] ELSE 0]

\* Truncation of a size_t to the 32-bit uInt of z_stream.avail_in/avail_out.
ToUInt(s) == << s[1], s[2] >>

\* Carry into limb i of a + b.
RECURSIVE Carry(_, _, _)
Carry(a, b, i) ==
  IF i = 1 THEN 0 ELSE (a[i - 1] + b[i - 1] + Carry(a, b, i - 1)) \div Limb

\* a + b in an n-limb size_t: the carry out of the top limb is dropped.
SizeAdd(a, b, n) == [i \in 1..n |-> (a[i] + b[i] + Carry(a, b, i)) % Limb]

\* a <= b on n-limb words, compared from the top limb down.
RECURSIVE SizeLeFrom(_, _, _)
SizeLeFrom(a, b, i) ==
  IF i = 0 THEN TRUE
  ELSE IF a[i] /= b[i] THEN a[i] < b[i]
  ELSE SizeLeFrom(a, b, i - 1)

SizeLe(a, b) == SizeLeFrom(a, b, Len(a))

\* ------------------------------------------------------------------ state
Ctxs == {1, 2}

VARIABLES
  alive,         \* the process has not aborted or crashed
  size_t_limbs,  \* width of size_t in this build, in limbs: 2 (32 bit) or 4 (64 bit)
  ctx,           \* the ZCtx objects, by handle
  work           \* every uv_work_t / WorkReqWrap pair, in submission order

vars == << alive, size_t_limbs, ctx, work >>

NoPtr == [buf |-> "none", off |-> Uint32Value(0)]

\* z_stream as `new ZCtx` leaves it: nothing is initialised. Fields that the
\* code never reads before writing them are held at 0; `state` says whether
\* the block is still indeterminate.
NewStrm ==
  [state |-> "indeterminate",
   avail_in |-> Uint32Value(0), next_in |-> NoPtr,
   avail_out |-> Uint32Value(0), next_out |-> NoPtr]

NoCtx ==
  [life |-> "none", mode |-> 0, init_done_ |-> FALSE, strm_ |-> NewStrm,
   level_ |-> 0, windowBits_ |-> 0, memLevel_ |-> 0, strategy_ |-> 0,
   flush_ |-> 0, chunk_size_ |-> 0,
   allocs |-> 0, frees |-> 0]

\* ZCtx() : ObjectWrap() {} initialises no member: init_done_ holds whatever
\* the allocation held.
ZCtx(m, garbage) == [NoCtx EXCEPT !.life = "live", !.mode = m, !.init_done_ = garbage]

Init ==
  /\ alive = TRUE
  /\ size_t_limbs \in {2, 4}
  /\ ctx = [c \in Ctxs |-> NoCtx]
  /\ work = << >>

\* abort() after a failed assert(), or a crash: the process and all it held
\* are gone. Only the build it was remains.
Abort ==
  /\ alive' = FALSE
  /\ ctx' = [c \in Ctxs |-> NoCtx]
  /\ work' = << >>
  /\ UNCHANGED size_t_limbs

\* Work items of context c that a pool thread is executing right now.
Running(c) == {w \in 1..Len(work) : work[w].ctx = c /\ work[w].pc = "running"}

\* A loop-thread write to ctx c's fields while Process is reading them on a
\* pool thread is a data race: the racing transform's outcome is undefined.
Disturb(wk, c) ==
  [w \in 1..Len(wk) |->
     IF wk[w].ctx = c /\ wk[w].pc = "running" THEN [wk[w] EXCEPT !.raced = TRUE]
     ELSE wk[w]]

\* Work items of context c that Write has submitted and After has not yet
\* completed.
InFlight(c) ==
  {w \in 1..Len(work) : work[w].ctx = c /\ work[w].pc \in {"queued", "running", "done"}}

\* The items of context c still in flight when another Write is issued on c
\* are remembered as overlapped.
Overlap(wk, c) ==
  [w \in 1..Len(wk) |->
     IF w \in InFlight(c) THEN [wk[w] EXCEPT !.overlapped = TRUE] ELSE wk[w]]

\* ZCtx::New
New(c, m, garbage) ==
  /\ alive
  /\ ctx[c].life = "none"
  /\ \A d \in Ctxs : d < c => ctx[d].life /= "none"
  /\ ctx' = [ctx EXCEPT ![c] = ZCtx(m, garbage)]
  /\ UNCHANGED << alive, size_t_limbs, work >>

\* ------------------------------------------------------------------- zlib
Compressing(m) == m \in {DEFLATE, GZIP, DEFLATERAW}

\* deflateInit2(strm, level, Z_DEFLATED, windowBits, memLevel, strategy):
\* Z_STREAM_ERROR for parameters zlib does not accept, else Z_OK, or
\* Z_MEM_ERROR when the allocation fails.
deflateInit2(level, windowBits, memLevel, strategy) ==
  LET wb == IF windowBits < 0 THEN -windowBits
            ELSE IF windowBits > 15 THEN windowBits - 16 ELSE windowBits
      ok == /\ wb \in 8..15
            /\ level \in -1..9
            /\ memLevel \in 1..9
            /\ strategy \in Z_DEFAULT_STRATEGY..Z_FIXED
  IN IF ok THEN {Z_OK, Z_MEM_ERROR} ELSE {Z_STREAM_ERROR}

\* inflateInit2(strm, windowBits): a negative windowBits is raw inflate, 16
\* and 32 select the gzip and the auto-detecting wrappers.
inflateInit2(windowBits) ==
  LET wb == IF windowBits < 0 THEN -windowBits
            ELSE IF windowBits < 48 THEN windowBits % 16 ELSE windowBits
  IN IF wb = 0 \/ wb \in 8..15 THEN {Z_OK, Z_MEM_ERROR} ELSE {Z_STREAM_ERROR}

\* ------------------------------------------------------------------- Init
\* An adjustment that adds the container offsets and forgets to negate
\* windowBits for the raw modes.
AdjustWindowBitsNoRaw(m, windowBits) ==
  LET g == IF m = GZIP \/ m = GUNZIP THEN windowBits + 16 ELSE windowBits
  IN IF m = UNZIP THEN g + 32 ELSE g

\* windowBits_ after the per-mode adjustment of Init(ZCtx*, ...).
AdjustWindowBits(m, windowBits) ==
  LET g == IF m = GZIP \/ m = GUNZIP THEN windowBits + 16 ELSE windowBits
      u == IF m = UNZIP THEN g + 32 ELSE g
  IN IF m = DEFLATERAW \/ m = INFLATERAW THEN u * (-1) ELSE u

\* Init(ZCtx *ctx, int level, int windowBits, int memLevel, int strategy)
\* with zlib answering err: the context as the function leaves it (also when
\* the closing assertion then aborts).
InitCtx(z, level, windowBits, memLevel, strategy, err) ==
  [z EXCEPT
     !.level_ = level,
     !.windowBits_ = AdjustWindowBits(z.mode, windowBits),
     !.memLevel_ = memLevel,
     !.strategy_ = strategy,
     !.flush_ = Z_NO_FLUSH,
     !.strm_.state = IF err = Z_OK THEN "live"
                     ELSE IF err = Z_MEM_ERROR THEN "null" ELSE @,
     !.allocs = IF err = Z_OK THEN @ + 1 ELSE @,
     !.init_done_ = TRUE]

InitErrs(m, level, windowBits, memLevel, strategy) ==
  IF Compressing(m)
  THEN deflateInit2(level, AdjustWindowBits(m, windowBits), memLevel, strategy)
  ELSE inflateInit2(AdjustWindowBits(m, windowBits))

\* The four argument assertions of Init(const Arguments&).
ValidInitArgs(windowBits, level, memLevel, strategy) ==
  /\ windowBits >= 8 /\ windowBits <= 15
  /\ level >= -1 /\ level <= 9
  /\ memLevel >= 1 /\ memLevel <= 9
  /\ strategy \in {Z_FILTERED, Z_HUFFMAN_ONLY, Z_RLE, Z_FIXED, Z_DEFAULT_STRATEGY}

\* JS arguments <<windowBits, level, memLevel, strategy>> the caller passes.
InitArgSet ==
  { <<8, -1, 1, 0>>, <<15, 9, 9, 4>>,
    <<7, 6, 8, 0>>, <<16, 6, 8, 0>>, <<15, -2, 8, 0>>, <<15, 10, 8, 0>>,
    <<15, 6, 0, 0>>, <<15, 6, 10, 0>>, <<15, 6, 8, 5>>, <<15, 6, 8, -1>> }

\* ZCtx::Init(const Arguments& args)
ZCtxInit(c, a) ==
  LET windowBits == ToInt(Uint32Value(a[1]))
      level == ToInt(Uint32Value(a[2]))
      memLevel == ToInt(Uint32Value(a[3]))
      strategy == ToInt(Uint32Value(a[4]))
  IN
  /\ alive
  /\ ctx[c].life = "live"
  /\ ctx[c].allocs < MaxInits
  /\ IF ~ValidInitArgs(windowBits, level, memLevel, strategy)
     THEN Abort
     ELSE \E err \in InitErrs(ctx[c].mode, level, windowBits, memLevel, strategy) :
            IF err = Z_OK
            THEN /\ ctx' = [ctx EXCEPT ![c] =
                      InitCtx(@, level, windowBits, memLevel, strategy, err)]
                 /\ work' = Disturb(work, c)
                 /\ UNCHANGED << alive, size_t_limbs >>
            ELSE Abort

\* ------------------------------------------------------------------ Write
\* Value of a 32-bit word that fits a model integer.
ToNat(u) == u[2] * Limb + u[1]

\* Buffer::Length(buf), a size_t.
BufferLength(n) == ToSizeT(Uint32Value(BufLen), n)

\* assert(off + len <= Buffer::Length(buf)) with off, len and the sum size_t.
WithinBuffer(off, len, n) ==
  SizeLe(SizeAdd(ToSizeT(off, n), ToSizeT(len, n), n), BufferLength(n))

\* What the caller passes: flush, the input (null, or a Buffer with offset and
\* length), and the output offset and length, as JS integers.
Chunk(flush, in_off, in_len, out_off, out_len) ==
  [flush |-> flush, in_null |-> FALSE, in_off |-> in_off, in_len |-> in_len,
   out_off |-> out_off, out_len |-> out_len]

FlushOnly(flush, out_off, out_len) ==
  [flush |-> flush, in_null |-> TRUE, in_off |-> 0, in_len |-> 0,
   out_off |-> out_off, out_len |-> out_len]

WriteArgSet ==
  { Chunk(Z_NO_FLUSH, 0, 1, 0, 1),             \* one byte in, room for one out
    FlushOnly(Z_FINISH, 0, 1),                 \* the final, input-less write
    Chunk(Z_NO_FLUSH, 0, 1, BufLen, 0),        \* an empty output slice
    Chunk(Z_FINISH, 0, BufLen + 1, 0, 1),      \* input past the end
    Chunk(Z_NO_FLUSH, BufLen, 1, 0, 1),
    Chunk(Z_NO_FLUSH, 0, 1, BufLen, 1),        \* output past the end
    FlushOnly(Z_NO_FLUSH, BufLen + 1, 0),
    Chunk(Z_NO_FLUSH, -1, 1, 0, 1),            \* in_off = 2^32 - 1
    Chunk(Z_NO_FLUSH, 0, 1, -1, 1) }           \* out_off = 2^32 - 1

\* The input arguments as Write reads them: zeros for the flush-only marker.
InOff(a) == IF a.in_null THEN Uint32Value(0) ELSE Uint32Value(a.in_off)
InLen(a) == IF a.in_null THEN Uint32Value(0) ELSE Uint32Value(a.in_len)

\* The assertions of Write after "write before init", in program order.
WriteChecks(a, n) ==
  /\ a.in_null \/ WithinBuffer(InOff(a), InLen(a), n)
  /\ WithinBuffer(Uint32Value(a.out_off), Uint32Value(a.out_len), n)

\* The staging assignments of Write on context z.
Stage(z, a, n) ==
  [z EXCEPT
     !.strm_.avail_in = ToUInt(ToSizeT(InLen(a), n)),
     !.strm_.next_in = IF a.in_null THEN [buf |-> "nada", off |-> Uint32Value(0)]
                       ELSE [buf |-> "in", off |-> InOff(a)],
     !.strm_.avail_out = ToUInt(ToSizeT(Uint32Value(a.out_len), n)),
     !.strm_.next_out = [buf |-> "out", off |-> Uint32Value(a.out_off)],
     !.flush_ = ToInt(Uint32Value(a.flush)),
     !.chunk_size_ = ToInt(ToUInt(ToSizeT(Uint32Value(a.out_len), n)))]

\* The bytes [ptr, ptr + avail) lie inside the Buffer the pointer was made from.
SliceInBuffer(ptr, avail) ==
  IF ptr.buf = "nada" THEN ToNat(avail) = 0 ELSE WithinBuffer(ptr.off, avail, 4)

\* new WorkReqWrap / new uv_work_t for context c, as uv_queue_work takes it;
\* `sound` remembers whether it was staged on a context that Init had set up,
\* with slices that lie in their Buffers,
\* `overlapped` whether another Write of the context was in flight with it,
\* `in_null` and `req_flush` what the caller asked for; `seq` will be its
\* place in the order in which the pool finishes work.
NewWork(c, z, a) ==
  [ctx |-> c, pc |-> "queued", raced |-> FALSE,
   sound |-> /\ z.allocs >= 1
             /\ SliceInBuffer(z.strm_.next_in, z.strm_.avail_in)
             /\ SliceInBuffer(z.strm_.next_out, z.strm_.avail_out),
   overlapped |-> InFlight(c) /= {},
   req_wrap |-> "live", work_req |-> "live",
   in_len |-> z.strm_.avail_in, out_len |-> z.strm_.avail_out,
   in_null |-> a.in_null, req_flush |-> z.flush_,
   invoked |-> 0, err |-> Z_OK, flush |-> 0, left |-> << 0, 0 >>, seq |-> 0,
   delivered |-> 0, args |-> << 0, 0 >>]

\* ZCtx::Write
Write(c, a) ==
  /\ alive
  /\ ctx[c].life = "live"
  /\ IF ~ctx[c].init_done_ \/ ~WriteChecks(a, size_t_limbs)
     THEN Abort
     ELSE LET z == Stage(ctx[c], a, size_t_limbs) IN
          /\ ctx' = [ctx EXCEPT ![c] = z]
          /\ work' = Append(Overlap(Disturb(work, c), c), NewWork(c, z, a))
          /\ UNCHANGED << alive, size_t_limbs >>

\* ---------------------------------------------------------------- Process
\* Size of the uv work pool.
PoolSize == 4

\* One call of deflate(strm, flush) with a bytes of input and b bytes of output
\* room: the return code, the bytes consumed and produced, and the stream's
\* next state. Z_STREAM_ERROR is zlib's answer to an inconsistent stream.
deflate(state, a, b, flush) ==
  IF state \notin {"live", "finish"} \/ flush \notin 0..5
     \/ (state = "finish" /\ flush /= Z_FINISH)
  THEN {[err |-> Z_STREAM_ERROR, consumed |-> 0, produced |-> 0, state |-> state]}
  ELSE IF b = 0
  THEN {[err |-> Z_BUF_ERROR, consumed |-> 0, produced |-> 0, state |-> state]}
  ELSE {[err |-> Z_BUF_ERROR, consumed |-> 0, produced |-> 0, state |-> state]}
       \cup
       {[err |-> Z_OK, consumed |-> c, produced |-> p,
         state |-> IF flush = Z_FINISH THEN "finish" ELSE state] :
          << c, p >> \in {x \in (0..a) \X (0..b) : x[1] + x[2] > 0}}
       \cup
       {[err |-> Z_STREAM_END, consumed |-> a, produced |-> p, state |-> "finish"] :
          p \in {q \in 1..b : flush = Z_FINISH}}

\* One call of inflate(strm, flush): Z_DATA_ERROR for corrupt input (and from
\* then on), Z_STREAM_END once the trailer has been read (and from then on).
inflate(state, a, b, flush) ==
  IF state \notin {"live", "finish", "bad"} \/ flush \notin 0..5
  THEN {[err |-> Z_STREAM_ERROR, consumed |-> 0, produced |-> 0, state |-> state]}
  ELSE IF state = "finish"
  THEN {[err |-> Z_STREAM_END, consumed |-> 0, produced |-> 0, state |-> state]}
  ELSE IF state = "bad"
  THEN {[err |-> Z_DATA_ERROR, consumed |-> 0, produced |-> 0, state |-> state]}
  ELSE {[err |-> Z_BUF_ERROR, consumed |-> 0, produced |-> 0, state |-> state]}
       \cup
       {[err |-> Z_OK, consumed |-> c, produced |-> p, state |-> state] :
          << c, p >> \in {x \in (0..a) \X (0..b) : x[1] + x[2] > 0}}
       \cup
       {[err |-> Z_STREAM_END, consumed |-> c, produced |-> p, state |-> "finish"] :
          << c, p >> \in {x \in (0..a) \X (0..b) : x[1] > 0}}
       \cup
       {[err |-> Z_DATA_ERROR, consumed |-> c, produced |-> p, state |-> "bad"] :
          << c, p >> \in {x \in (0..a) \X (0..b) : x[1] > 0}}

\* The switch (mode) of Process.
Transform(m, state, a, b, flush) ==
  IF Compressing(m) THEN deflate(state, a, b, flush) ELSE inflate(state, a, b, flush)

\* ptr + n
Advance(ptr, n) == [ptr EXCEPT !.off = ToUInt(SizeAdd(ToSizeT(@, 2), ToSizeT(Uint32Value(n), 2), 2))]

\* avail - n
Less(avail, n) == Uint32Value(ToNat(avail) - n)

\* The transform of work item w has defined behaviour: its context is alive,
\* its z_stream was set up by Init, no other thread touched the context while
\* it ran, and the staged slices are inside their Buffers.
Defined(w) ==
  LET z == ctx[work[w].ctx] IN
  /\ ~work[w].raced
  /\ z.life = "live"
  /\ z.strm_.state /= "indeterminate"
  /\ SliceInBuffer(z.strm_.next_in, z.strm_.avail_in)
  /\ SliceInBuffer(z.strm_.next_out, z.strm_.avail_out)

\* What an undefined transform may return, when it returns at all; what it does
\* to memory is not followed.
AnyErr == {Z_OK, Z_STREAM_END, Z_STREAM_ERROR, Z_DATA_ERROR, Z_BUF_ERROR}
AnyAvail == 0..BufLen

\* A pool thread takes the work item at the head of the uv queue.
ProcessStart(w) ==
  /\ alive
  /\ work[w].pc = "queued"
  /\ \A v \in 1..(w - 1) : work[v].pc /= "queued"
  /\ Cardinality({v \in 1..Len(work) : work[v].pc = "running"}) < PoolSize
  /\ work' = [v \in 1..Len(work) |->
       IF v = w THEN [work[v] EXCEPT !.pc = "running", !.raced = Running(work[w].ctx) /= {}]
       ELSE IF v \in Running(work[w].ctx) THEN [work[v] EXCEPT !.raced = TRUE]
       ELSE work[v]]
  /\ UNCHANGED << alive, size_t_limbs, ctx >>

\* The number of work items the pool has finished so far.
Finished == Cardinality({v \in 1..Len(work) : work[v].pc \in {"done", "delivered"}})

\* A Process that calls the transform again on what the first call left.
ProcessedLooping(item, err, flush, ai, ao) ==
  [item EXCEPT !.pc = "done", !.raced = FALSE, !.invoked = @ + 2, !.err = err,
               !.flush = flush, !.left = << ai, ao >>, !.seq = Finished + 1]

\* The work item when Process returns err, leaving avail_in = ai, avail_out = ao.
Processed(item, err, flush, ai, ao) ==
  [item EXCEPT !.pc = "done", !.raced = FALSE, !.invoked = @ + 1, !.err = err,
               !.flush = flush, !.left = << ai, ao >>, !.seq = Finished + 1]

\* ZCtx::Process, run to its end on a pool thread.
Process(w) ==
  LET c == work[w].ctx
      z == ctx[c]
  IN
  /\ alive
  /\ work[w].pc = "running"
  /\ IF Defined(w)
     THEN \E r \in Transform(z.mode, z.strm_.state, ToNat(z.strm_.avail_in),
                             ToNat(z.strm_.avail_out), z.flush_) :
            LET ai == Less(z.strm_.avail_in, r.consumed)
                ao == Less(z.strm_.avail_out, r.produced)
            IN
            IF r.err = Z_STREAM_ERROR THEN Abort ELSE
            /\ ctx' = [ctx EXCEPT ![c].strm_ =
                 [@ EXCEPT !.state = r.state,
                           !.avail_in = ai, !.next_in = Advance(@, r.consumed),
                           !.avail_out = ao, !.next_out = Advance(@, r.produced)]]
            /\ work' = [work EXCEPT ![w] =
                 Processed(@, r.err, z.flush_, ToInt(ai), ToInt(ao))]
            /\ UNCHANGED << alive, size_t_limbs >>
     ELSE \/ Abort
          \/ \E err \in AnyErr \ {Z_STREAM_ERROR} :
               /\ work' = [work EXCEPT ![w] =
                    Processed(@, err, z.flush_, ToInt(z.strm_.avail_in),
                              ToInt(z.strm_.avail_out))]
               /\ UNCHANGED << alive, size_t_limbs, ctx >>

\* ------------------------------------------------------------------ After
\* The arguments After hands to the callback: {avail_in, avail_out}, each made
\* by Integer::New(int32_t) from the context's z_stream.
CallbackArgs(z) == << ToInt(z.strm_.avail_in), ToInt(z.strm_.avail_out) >>

\* The work item once After has called back with args and deleted req_wrap.
Delivered(item, args) ==
  [item EXCEPT !.pc = "delivered", !.delivered = @ + 1, !.args = args,
               !.req_wrap = "deleted"]

\* ZCtx::After, on the loop thread, once Process has returned for w; the loop
\* runs the after-work callbacks in the order the pool finished the work. cb
\* says whether the caller has set a function as the request object's callback.
After(w, cb) ==
  LET c == work[w].ctx
      z == ctx[c]
  IN
  /\ alive
  /\ work[w].pc = "done"
  /\ \A v \in 1..Len(work) : work[v].pc = "done" => work[v].seq >= work[w].seq
  /\ IF ~cb
     THEN Abort
     ELSE IF z.life = "live" /\ Running(c) = {}
     THEN /\ work' = [work EXCEPT ![w] = Delivered(@, CallbackArgs(z))]
          /\ UNCHANGED << alive, size_t_limbs, ctx >>
     ELSE \/ /\ z.life /= "live"
             /\ Abort
          \/ \E ai \in AnyAvail, ao \in AnyAvail :
               /\ work' = [work EXCEPT ![w] = Delivered(@, << ai, ao >>)]
               /\ UNCHANGED << alive, size_t_limbs, ctx >>

\* ---------------------------------------------------------------- ~ZCtx
\* deflateEnd / inflateEnd on a z_stream: releases the state Init allocated.
\* On a z_stream that was never set up the call reads indeterminate memory.
EndStrm(z) ==
  IF z.strm_.state \in {"live", "finish", "bad"}
  THEN [z EXCEPT !.strm_.state = "ended", !.frees = @ + 1]
  ELSE z

\* ~ZCtx(): the object as the destructor leaves it.
Destructor(z) ==
  IF z.mode = DEFLATE \/ z.mode = GZIP \/ z.mode = DEFLATERAW THEN EndStrm(z)
  ELSE IF z.mode = INFLATE \/ z.mode = GUNZIP \/ z.mode = INFLATERAW THEN EndStrm(z)
  ELSE z

\* The storage of a deleted context holds nothing the program may rely on;
\* the model remembers its mode, what became of its z_stream state, and the
\* allocation counts.
Freed(z) ==
  [NoCtx EXCEPT !.life = "destroyed", !.mode = z.mode, !.strm_.state = z.strm_.state,
                !.allocs = z.allocs, !.frees = z.frees]

\* The garbage collector finalises the wrapper of context c: delete ctx.
Destroy(c) ==
  LET d == Destructor(ctx[c]) IN
  /\ alive
  /\ ctx[c].life = "live"
  /\ \/ /\ ctx' = [ctx EXCEPT ![c] = Freed(d)]
        /\ work' = Disturb(work, c)
        /\ UNCHANGED << alive, size_t_limbs >>
     \/ /\ ctx[c].strm_.state = "indeterminate"
        /\ ctx[c].mode /= UNZIP
        /\ Abort

\* ------------------------------------------------------------------- Next
\* The steps of a program that uses the contexts of CS, of the modes of MS,
\* and calls Write at most n times.
NextOver(CS, MS, n) ==
  \/ \E c \in CS, m \in MS, g \in BOOLEAN : New(c, m, g)
  \/ \E c \in CS, a \in InitArgSet : ZCtxInit(c, a)
  \/ \E c \in CS, a \in WriteArgSet : Len(work) < n /\ Write(c, a)
  \/ \E w \in 1..Len(work) : ProcessStart(w)
  \/ \E w \in 1..Len(work) : Process(w)
  \/ \E w \in 1..Len(work), cb \in BOOLEAN : After(w, cb)
  \/ \E c \in CS : Destroy(c)

\* The write path: one context, compressing or decompressing, and up to
\* MaxWrites writes, which may overlap.
Next == NextOver({1}, {DEFLATE, GUNZIP}, MaxWrites)

Spec == Init /\ [][Next]_vars

\* The worker pool keeps taking queued work and finishing what it runs, and
\* the event loop keeps calling back for finished work.
Fairness ==
  /\ WF_vars(\E w \in 1..Len(work) : ProcessStart(w))
  /\ WF_vars(\E w \in 1..Len(work) : Process(w))
  /\ WF_vars(\E w \in 1..Len(work), cb \in BOOLEAN : After(w, cb))

\* The write path under a fair pool and loop.
FairSpec == Init /\ [][Next]_vars /\ Fairness

\* Two compressing contexts used side by side by a caller that initialises
\* each once with valid arguments, writes slices that lie inside their Buffers,
\* and waits for a context's completion before it writes to that context again.
NextTwo ==
  \/ \E c \in Ctxs : New(c, DEFLATE, FALSE)
  \/ \E c \in Ctxs : ctx[c].allocs = 0 /\ ZCtxInit(c, <<15, 9, 9, 4>>)
  \/ \E c \in Ctxs, a \in {Chunk(Z_NO_FLUSH, 0, 1, 0, 1), FlushOnly(Z_FINISH, 0, 1)} :
       /\ Len(work) < MaxWrites + 1
       /\ ctx[c].allocs = 1
       /\ InFlight(c) = {}
       /\ Write(c, a)
  \/ \E w \in 1..Len(work) : ProcessStart(w)
  \/ \E w \in 1..Len(work) : Process(w)
  \/ \E w \in 1..Len(work) : After(w, TRUE)

SpecTwo == Init /\ [][NextTwo]_vars

\* The life cycle: one context of any of the seven modes, and one write.
NextModes == NextOver({1}, Modes, 1)

SpecModes == Init /\ [][NextModes]_vars

\* ----------------------------------------------------------------- claims
\* Work items of an initialised, live context whose slices lie in their
\* Buffers: the writes of a caller that respects Init and the bounds.
Proper == {w \in 1..Len(work) : work[w].sound /\ ctx[work[w].ctx].life = "live"
                                 /\ ctx[work[w].ctx].allocs >= 1}

\* C1: in every reachable state, every context has at most one (proper)
\* Write in flight, whatever Write calls the caller issues.
C1_OneWriteInFlight ==
  \A c \in Ctxs : Cardinality(InFlight(c) \cap Proper) <= 1

C3_OwnTransformResult ==
  \A w \in Proper :
    work[w].pc = "delivered" =>
      /\ ToNat(work[w].in_len) - work[w].args[1] = ToNat(work[w].in_len) - work[w].left[1]
      /\ ToNat(work[w].out_len) - work[w].args[2] = ToNat(work[w].out_len) - work[w].left[2]

\* A transform return code that reports a failed step.
IsError(err) == err \in {Z_STREAM_ERROR, Z_DATA_ERROR, Z_MEM_ERROR}

\* The delivered completions of proper writes that were alone in flight.
DeliveredItems == {w \in Proper : work[w].pc = "delivered" /\ ~work[w].overlapped}

\* C4: what the callback receives tells a failed Write from a successful one:
\* no two completions with the same callback arguments differ in whether
\* their transform failed.
C4_ErrorReported ==
  \A v \in DeliveredItems, w \in DeliveredItems :
    work[v].args = work[w].args => (IsError(work[v].err) <=> IsError(work[w].err))

\* C5: what the callback receives carries a finished flag: no two completions
\* with the same callback arguments differ in whether their transform
\* signalled end-of-stream.
C5_FinishedFlag ==
  \A v \in DeliveredItems, w \in DeliveredItems :
    work[v].args = work[w].args =>
      (work[v].err = Z_STREAM_END <=> work[w].err = Z_STREAM_END)

\* The slice off, len reaches past the end of its Buffer (no wrap-around).
PastEnd(off, len) == ~WithinBuffer(Uint32Value(off), Uint32Value(len), 4)

\* C6: a Write on an initialised context whose input or output slice reaches
\* past its Buffer is rejected and leaves the process running, the work queue
\* and the context unchanged.
C6_OutOfBoundsRejected ==
  [][\A c \in Ctxs, a \in WriteArgSet :
       ( /\ ctx[c].allocs >= 1 /\ ctx[c].init_done_
         /\ (~a.in_null /\ PastEnd(a.in_off, a.in_len)) \/ PastEnd(a.out_off, a.out_len)
         /\ Write(c, a) )
       => (alive' /\ work' = work /\ ctx' = ctx)]_vars

\* C7: a Write on an initialised context whose output length is 0 is rejected:
\* the process keeps running and no work item is queued.
C7_EmptyOutputRejected ==
  [][\A c \in Ctxs, a \in WriteArgSet :
       (ctx[c].allocs >= 1 /\ ctx[c].init_done_ /\ a.out_len = 0 /\ Write(c, a))
       => (alive' /\ work' = work)]_vars

\* The JS arguments of Init are in the documented ranges.
InRange(a) ==
  /\ a[1] \in 8..15
  /\ a[2] \in -1..9
  /\ a[3] \in 1..9
  /\ a[4] \in {Z_FILTERED, Z_HUFFMAN_ONLY, Z_RLE, Z_FIXED, Z_DEFAULT_STRATEGY}

\* C8: Init on a fresh context either succeeds, with arguments in range, and
\* leaves init_done_ true and the transform state allocated, or fails as a
\* reported error that leaves the process running and the context
\* uninitialised: init_done_ false and no transform state allocated.
C8_InitOutcome ==
  [][\A c \in Ctxs, a \in InitArgSet :
       (ctx[c].allocs = 0 /\ ZCtxInit(c, a))
       => /\ alive'
          /\ \/ InRange(a) /\ ctx'[c].init_done_ /\ ctx'[c].strm_.state = "live"
             \/ ~ctx'[c].init_done_ /\ ctx'[c].strm_.state = "indeterminate"]_vars

\* C9: Write on a context that no Init has set up always hits the "write
\* before init" assertion: the process aborts and nothing is queued.
C9_WriteBeforeInitFatal ==
  [][\A c \in Ctxs, a \in WriteArgSet :
       (ctx[c].allocs = 0 /\ Write(c, a)) => ~alive']_vars

\* C10: a destroyed context of any mode holds no allocated transform state:
\* what a successful Init allocated has been released, once.
C10_ReleasedOnDestroy ==
  \A c \in Ctxs :
    ctx[c].life = "destroyed" =>
      /\ ctx[c].strm_.state \notin {"live", "finish", "bad"}
      /\ ctx[c].allocs >= 1 => ctx[c].frees = 1

\* C11: destroying a context that was created and never initialised is safe:
\* the step leaves the process running and releases nothing.
C11_TeardownUninitialisedSafe ==
  [][\A c \in Ctxs :
       (ctx[c].life = "live" /\ ctx[c].allocs = 0 /\ Destroy(c))
       => (alive' /\ ctx'[c].frees = 0)]_vars

\* C12: the completions of one context are delivered in the order of its
\* Writes: a delivered work item has no earlier, undelivered one of its context.
C12_DeliveredInSubmissionOrder ==
  \A v \in Proper, w \in Proper :
    (v < w /\ work[v].ctx = work[w].ctx /\ work[w].pc = "delivered")
    => work[v].pc = "delivered"

\* C13: under a fair pool and loop, every work item that Write has queued on
\* an initialised context, with slices inside their Buffers, eventually has its
\* completion delivered.
C13_EventuallyDelivered ==
  \A w \in 1..MaxWrites :
    (w \in Proper /\ work[w].pc = "queued")
    ~> (Len(work) >= w /\ work[w].pc = "delivered")

\* The transform of the running work item v is about to answer Z_STREAM_ERROR:
\* its stream is in a state zlib finds inconsistent with the request.
StreamErrorDue(v) ==
  LET z == ctx[work[v].ctx] IN
  /\ work[v].pc = "running"
  /\ Defined(v)
  /\ \A r \in Transform(z.mode, z.strm_.state, ToNat(z.strm_.avail_in),
                         ToNat(z.strm_.avail_out), z.flush_) : r.err = Z_STREAM_ERROR

\* C14: when the transform of one context's work item answers Z_STREAM_ERROR,
\* the process keeps running and the work items in flight for other contexts
\* are untouched by that step.
C14_StreamErrorConfined ==
  [][\A v \in 1..Len(work), w \in 1..Len(work) :
       ( /\ work[v].ctx /= work[w].ctx
         /\ work[w].pc \in {"queued", "running", "done"}
         /\ StreamErrorDue(v)
         /\ Process(v) )
       => (alive' /\ Len(work') >= w /\ work'[w] = work[w])]_vars

\* The windowBits each variant hands to zlib for a caller's windowBits w.
EffectiveWindowBits(m, w) ==
  CASE m \in {DEFLATE, INFLATE} -> w
    [] m \in {GZIP, GUNZIP} -> w + 16
    [] m = UNZIP -> w + 32
    [] m \in {DEFLATERAW, INFLATERAW} -> 0 - w

\* The configuration Init fixes.
Config(z) == << z.windowBits_, z.level_, z.memLevel_, z.strategy_ >>

\* C15: an Init that returns with windowBits w in 8..15 leaves the variant's
\* effective windowBits (w, w + 16, w + 32 or -w) in the context, and no
\* Write, Process or After step that leaves the process running changes
\* windowBits, level, memLevel or strategy of any context.
C15_WindowBitsFixedAtInit ==
  [][/\ \A c \in Ctxs, a \in InitArgSet :
          (a[1] \in 8..15 /\ ZCtxInit(c, a) /\ alive')
          => ctx'[c].windowBits_ = EffectiveWindowBits(ctx[c].mode, a[1])
     /\ ( /\ \/ \E c \in Ctxs, a \in WriteArgSet : Write(c, a)
             \/ \E w \in 1..Len(work) : ProcessStart(w) \/ Process(w)
             \/ \E w \in 1..Len(work), cb \in BOOLEAN : After(w, cb)
           /\ alive' )
        => \A c \in Ctxs : Config(ctx'[c]) = Config(ctx[c])]_vars

\* C15 witness: an unzip context initialised with windowBits 15 holds 47 and
\* has had a write processed and delivered.
C15_Witness ==
  /\ ctx[1].life = "live" /\ ctx[1].mode = UNZIP
  /\ ctx[1].windowBits_ = EffectiveWindowBits(UNZIP, 15)
  /\ Len(work) = 1 /\ work[1].pc = "delivered" /\ work[1].sound

\* C16: an Init on a context that a previous Init has set up allocates no
\* transform state again and leaves the configuration as the first Init fixed it.
C16_SecondInitAllocatesNothing ==
  [][\A c \in Ctxs, a \in InitArgSet :
       (ctx[c].life = "live" /\ ctx[c].allocs >= 1 /\ ZCtxInit(c, a) /\ alive')
       => (ctx'[c].allocs = ctx[c].allocs /\ Config(ctx'[c]) = Config(ctx[c]))]_vars

\* C17: once a write's completion has been delivered, both objects Write
\* allocated for it, the uv_work_t and the WorkReqWrap, have been deleted.
C17_RequestObjectsReleased ==
  \A w \in DeliveredItems :
    work[w].req_wrap = "deleted" /\ work[w].work_req = "deleted"

\* C18: while a write on an initialised context is in flight, queued, running
\* or waiting for After, its context has not been destroyed.
C18_ContextOutlivesWrite ==
  \A w \in 1..Len(work) :
    ( /\ work[w].pc \in {"queued", "running", "done"}
      /\ work[w].sound
      /\ ctx[work[w].ctx].allocs >= 1 )
    => ctx[work[w].ctx].life = "live"

\* C19: whatever the width of size_t, a Write that an initialised context
\* accepts has slices whose true offset + length is at most the Buffer's
\* length: a sum that wraps never lets a slice through.
C19_NoWrappedSliceAccepted ==
  [][\A c \in Ctxs, a \in WriteArgSet :
       ( /\ ctx[c].life = "live" /\ ctx[c].allocs >= 1 /\ ctx[c].init_done_
         /\ Write(c, a)
         /\ alive' )
       => ( /\ a.in_null \/ ~PastEnd(a.in_off, a.in_len)
            /\ ~PastEnd(a.out_off, a.out_len) )]_vars

\* C20: a flush-only Write on a context initialised once stages no input; the
\* transform run for it uses the flush mode that Write asked for and leaves
\* avail_in = 0, and its completion reports avail_in = 0.
C20_FlushOnlyWrite ==
  \A w \in Proper :
    (work[w].in_null /\ ctx[work[w].ctx].allocs = 1) =>
      /\ ToNat(work[w].in_len) = 0
      /\ work[w].pc \in {"done", "delivered"} =>
           (work[w].flush = work[w].req_flush /\ work[w].left[1] = 0)
      /\ work[w].pc = "delivered" => work[w].args[1] = 0
====
